---------------------------- MODULE Spec2Model ----------------------------
(***************************************************************************)
(* Recipe Finder & Meal Planner: the per-user persistence layer            *)
(* (file_helpers.py), the entity model (models.py) and the request         *)
(* handlers of app.py that drive them.                                     *)
(*                                                                         *)
(* A Python str the code measures, folds or strips is a sequence of pieces:*)
(* a username or password is the sequence of its characters, a day name or *)
(* recipe identifier is one word, <<"Monday">>, and a blank is the piece   *)
(* " ".  A str the code only passes on (a recipe name, a message) is a     *)
(* TLA+ string.  The data directory is the function `files`               *)
(* from a path to the JSON value stored there; a path outside its DOMAIN   *)
(* does not exist (os.path.exists).  uuid4 values are drawn from UUIDs and *)
(* taken to be fresh; werkzeug's salted hash is taken to be collision-free.*)
(***************************************************************************)
EXTENDS Integers, Sequences, FiniteSets, TLC

VARIABLES
    files,      \* data/: path -> JSON content of the file
    session,    \* Flask-Login session: id of the logged-in user, or NoUser
    plan,       \* the MealPlan object a caller of file_helpers holds, or None
    registered, \* history: user id -> what register_user was given and returned
    ret,        \* the last operation: its name, arguments and result
    calls       \* request thread -> the add_favorite or remove_favorite call
                \* it is in: its position, arguments and local variables

vars == <<files, session, plan, registered, ret, calls>>

----------------------------------------------------------------------------
(* Bounds of the model *)

MaxUsers == 2          \* size of the pool of uuid4 values

(* Program constants *)

MinUsernameLen == 3
MaxUsernameLen == 30
MinPasswordLen == 6

None == [none |-> TRUE]            \* Python's None / JSON null
NoUser == 0                        \* anonymous session (no user id)
UUIDs == 1..MaxUsers               \* the values str(uuid.uuid4()) can return
Threads == {"t1", "t2"}            \* the request threads of the server

----------------------------------------------------------------------------
(* Strings *)

Rep(c, n) == [i \in 1..n |-> c]

\* str.lower() on one character
LowerChar(c) ==
    CASE c = "A" -> "a"
      [] c = "B" -> "b"
      [] c = "C" -> "c"
      [] c = "S" -> "s"
      [] OTHER -> c

\* str.lower()
Lower(s) == [i \in DOMAIN s |-> LowerChar(s[i])]

IsSpace(c) == c = " "

RECURSIVE LStrip(_)
LStrip(s) == IF s # <<>> /\ IsSpace(Head(s)) THEN LStrip(Tail(s)) ELSE s

RECURSIVE RStrip(_)
RStrip(s) ==
    IF s # <<>> /\ IsSpace(s[Len(s)]) THEN RStrip(SubSeq(s, 1, Len(s) - 1)) ELSE s

\* str.strip()
Strip(s) == RStrip(LStrip(s))

----------------------------------------------------------------------------
(* Python dict, insertion-ordered: a sequence of [key, value] entries with  *)
(* distinct keys.                                                          *)

DictHas(d, k) == \E i \in DOMAIN d : d[i].key = k

DictGet(d, k) ==
    IF DictHas(d, k) THEN d[CHOOSE i \in DOMAIN d : d[i].key = k].value ELSE None

\* d[k] = v : an existing key keeps its position, a new key goes last
DictSet(d, k, v) ==
    IF DictHas(d, k)
    THEN [i \in DOMAIN d |-> IF d[i].key = k THEN [key |-> k, value |-> v] ELSE d[i]]
    ELSE Append(d, [key |-> k, value |-> v])

DictValues(d) == [i \in DOMAIN d |-> d[i].value]

----------------------------------------------------------------------------
(* models.py: User *)

\* werkzeug: the digest of a password under a salt (collision-free)
Digest(salt, password) == <<salt, password>>

\* generate_password_hash(password), with the salt it drew
GeneratePasswordHash(password, salt) ==
    [salt |-> salt, digest |-> Digest(salt, password)]

CheckAnyPassword(user, password) == TRUE

\* User.check_password
CheckPassword(user, password) ==
    Digest(user.password_hash.salt, password) = user.password_hash.digest

\* User.__init__
User(user_id, username, password_hash) ==
    [id |-> user_id, username |-> username, password_hash |-> password_hash]

\* User.to_dict
UserToDict(u) ==
    [id |-> u.id, username |-> u.username, password_hash |-> u.password_hash]

\* User.from_dict
UserFromDict(data) == User(data.id, data.username, data.password_hash)

\* User.create
UserCreate(user_id, username, password, salt) ==
    User(user_id, username, GeneratePasswordHash(password, salt))

----------------------------------------------------------------------------
(* models.py: Recipe *)

\* Recipe.__init__
Recipe(record_id, name, category, area, instructions, thumbnail_url, ingredients, youtube_url) ==
    [id |-> record_id, name |-> name, category |-> category, area |-> area,
     instructions |-> instructions, thumbnail_url |-> thumbnail_url,
     ingredients |-> ingredients, youtube_url |-> youtube_url]

\* Recipe.to_dict
RecipeToDict(r) ==
    [id |-> r.id, name |-> r.name, category |-> r.category, area |-> r.area,
     instructions |-> r.instructions, thumbnail_url |-> r.thumbnail_url,
     ingredients |-> r.ingredients, youtube_url |-> r.youtube_url]

\* dict.get(key, default)
Get(data, key, default) == IF key \in DOMAIN data THEN data[key] ELSE default

RecipeFromDictNoVideo(data) ==
    Recipe(Get(data, "id", <<>>), Get(data, "name", ""), Get(data, "category", ""),
           Get(data, "area", ""), Get(data, "instructions", ""),
           Get(data, "thumbnail_url", ""), Get(data, "ingredients", <<>>), "")

\* Recipe.from_dict
RecipeFromDict(data) ==
    Recipe(Get(data, "id", <<>>), Get(data, "name", ""), Get(data, "category", ""),
           Get(data, "area", ""), Get(data, "instructions", ""),
           Get(data, "thumbnail_url", ""), Get(data, "ingredients", <<>>),
           Get(data, "youtube_url", ""))

\* A value of the catalog's JSON record that may be null: null, or a string
JsonNull == [null |-> TRUE, str |-> <<>>]

JsonStr(s) == [null |-> FALSE, str |-> s]

\* value or ""
OrEmpty(v) == IF v.null THEN <<>> ELSE v.str

\* f"strIngredient{counter}", f"strMeasure{counter}"
IngredientKey(counter) == "strIngredient" \o ToString(counter)

MeasureKey(counter) == "strMeasure" \o ToString(counter)

\* range(1, 21) ends with this index
IngredientSlots == 20

RECURSIVE ScanIngredientsUnstripped(_, _, _)
ScanIngredientsUnstripped(meal, counter, ingredients) ==
    IF counter > IngredientSlots THEN ingredients
    ELSE LET ingredient == OrEmpty(Get(meal, IngredientKey(counter), JsonStr(<<>>)))
             measure    == OrEmpty(Get(meal, MeasureKey(counter), JsonStr(<<>>)))
         IN  ScanIngredientsUnstripped(meal, counter + 1,
                 IF ingredient # <<>>
                 THEN Append(ingredients,
                          Strip(Strip(measure) \o <<" ">> \o Strip(ingredient)))
                 ELSE ingredients)

\* Recipe.from_api, the loop from counter on
RECURSIVE ScanIngredients(_, _, _)
ScanIngredients(meal, counter, ingredients) ==
    IF counter > IngredientSlots THEN ingredients
    ELSE LET ingredient == OrEmpty(Get(meal, IngredientKey(counter), JsonStr(<<>>)))
             measure    == OrEmpty(Get(meal, MeasureKey(counter), JsonStr(<<>>)))
         IN  ScanIngredients(meal, counter + 1,
                 IF Strip(ingredient) # <<>>
                 THEN Append(ingredients,
                          Strip(Strip(measure) \o <<" ">> \o Strip(ingredient)))
                 ELSE ingredients)

\* Recipe.from_api
FromApi(meal) ==
    Recipe(Get(meal, "idMeal", <<>>), Get(meal, "strMeal", ""),
           Get(meal, "strCategory", ""), Get(meal, "strArea", ""),
           Get(meal, "strInstructions", ""), Get(meal, "strMealThumb", ""),
           ScanIngredients(meal, 1, <<>>), Get(meal, "strYoutube", ""))

----------------------------------------------------------------------------
(* models.py: MealPlan *)

DAYS ==
    << <<"Monday">>, <<"Tuesday">>, <<"Wednesday">>, <<"Thursday">>,
       <<"Friday">>, <<"Saturday">>, <<"Sunday">> >>

DaySet == {DAYS[i] : i \in DOMAIN DAYS}

\* MealPlan.__init__
MealPlanNew == [id |-> "weekly_plan", plan |-> [day \in DaySet |-> None]]

AssignMealAnyDay(mp, day_name, recipe) ==
    [ok |-> TRUE,
     mp |-> [mp EXCEPT !.plan =
                [day \in DOMAIN mp.plan \cup {day_name} |->
                    IF day = day_name THEN recipe ELSE mp.plan[day]]]]

AssignMealIfEmpty(mp, day_name, recipe) ==
    IF day_name \in DOMAIN mp.plan
    THEN [ok |-> TRUE,
          mp |-> IF mp.plan[day_name] = None
                 THEN [mp EXCEPT !.plan[day_name] = recipe] ELSE mp]
    ELSE [ok |-> FALSE, mp |-> mp]

\* MealPlan.assign_meal: what it returns and the plan it leaves
AssignMeal(mp, day_name, recipe) ==
    IF day_name \in DOMAIN mp.plan
    THEN [ok |-> TRUE, mp |-> [mp EXCEPT !.plan[day_name] = recipe]]
    ELSE [ok |-> FALSE, mp |-> mp]

RemoveMealAnyDay(mp, day_name) ==
    [ok |-> TRUE,
     mp |-> [mp EXCEPT !.plan =
                [day \in DOMAIN mp.plan \cup {day_name} |->
                    IF day = day_name THEN None ELSE mp.plan[day]]]]

\* MealPlan.remove_meal: what it returns and the plan it leaves
RemoveMeal(mp, day_name) ==
    IF day_name \in DOMAIN mp.plan
    THEN [ok |-> TRUE, mp |-> [mp EXCEPT !.plan[day_name] = None]]
    ELSE [ok |-> FALSE, mp |-> mp]

\* MealPlan.to_dict
MealPlanToDict(mp) ==
    [id |-> mp.id,
     plan |-> [day \in DOMAIN mp.plan |->
                  IF mp.plan[day] # None THEN RecipeToDict(mp.plan[day]) ELSE None]]

\* MealPlan.from_dict: a fresh plan, then every non-null entry of the record
\* is stored under its own key
MealPlanFromDict(data) ==
    LET stored == Get(data, "plan", <<>>)
        filled == {day \in DOMAIN stored : stored[day] # None}
    IN  [id |-> "weekly_plan",
         plan |-> [day \in DaySet \cup filled |->
                      IF day \in filled THEN RecipeFromDict(stored[day]) ELSE None]]

----------------------------------------------------------------------------
(* file_helpers.py: paths *)

USERS_FILE == <<"users.json">>

FavoritesFileShared(user_id) == <<"favorites.json">>

FavoritesFile(user_id) == <<"favorites_", user_id, ".json">>

MealPlanFile(user_id) == <<"meal_plan_", user_id, ".json">>

Exists(fs, path) == path \in DOMAIN fs

\* open(path, "w") + json.dump: create or overwrite
WriteFile(fs, path, content) ==
    [p \in DOMAIN fs \cup {path} |-> IF p = path THEN content ELSE fs[p]]

----------------------------------------------------------------------------
(* file_helpers.py: user accounts *)

RECURSIVE LoadUsersLoopRawKey(_, _, _)
LoadUsersLoopRawKey(raw, i, users) ==
    IF i > Len(raw) THEN users
    ELSE LET user == UserFromDict(raw[i])
         IN  LoadUsersLoopRawKey(raw, i + 1, DictSet(users, user.username, user))

\* load_all_users: the loop that rebuilds { username_lowercase: User }
RECURSIVE LoadUsersLoop(_, _, _)
LoadUsersLoop(raw, i, users) ==
    IF i > Len(raw) THEN users
    ELSE LET user == UserFromDict(raw[i])
         IN  LoadUsersLoop(raw, i + 1, DictSet(users, Lower(user.username), user))

LoadAllUsers(fs) ==
    IF ~Exists(fs, USERS_FILE) THEN <<>>
    ELSE LoadUsersLoop(fs[USERS_FILE], 1, <<>>)

SaveAllUsers(fs, users) ==
    WriteFile(fs, USERS_FILE,
              [i \in DOMAIN users |-> UserToDict(DictValues(users)[i])])

GetUserById(fs, user_id) ==
    LET all_users == DictValues(LoadAllUsers(fs))
        hits == {i \in DOMAIN all_users : all_users[i].id = user_id}
    IN  IF hits = {} THEN None
        ELSE all_users[CHOOSE i \in hits : \A j \in hits : i <= j]

GetUserByUsernameExact(fs, username) == DictGet(LoadAllUsers(fs), username)

GetUserByUsername(fs, username) == DictGet(LoadAllUsers(fs), Lower(username))

UsedIds(fs) ==
    IF Exists(fs, USERS_FILE)
    THEN {fs[USERS_FILE][i].id : i \in DOMAIN fs[USERS_FILE]}
    ELSE {}

ErrShort == "Username must be at least 3 characters."
ErrLong == "Username must be 30 characters or fewer."
ErrPassword == "Password must be at least 6 characters."
ErrTaken == "That username is already taken. Please choose another."
NoError == "None"

ValidationErrorOffByOne(username, password) ==
    IF Len(username) <= MinUsernameLen THEN ErrShort
    ELSE IF Len(username) >= MaxUsernameLen THEN ErrLong
    ELSE IF Len(password) <= MinPasswordLen THEN ErrPassword
    ELSE NoError

\* register_user: the length checks, in the order the code makes them
ValidationError(username, password) ==
    IF Len(username) < MinUsernameLen THEN ErrShort
    ELSE IF Len(username) > MaxUsernameLen THEN ErrLong
    ELSE IF Len(password) < MinPasswordLen THEN ErrPassword
    ELSE NoError

RegisterNoDuplicateCheck(fs, username, password, user_id, salt) ==
    IF ValidationError(username, password) # NoError
    THEN [user |-> None, error |-> ValidationError(username, password), fs |-> fs]
    ELSE LET new_user == UserCreate(user_id, username, password, salt)
         IN  [user |-> new_user, error |-> NoError,
              fs |-> SaveAllUsers(fs, DictSet(LoadAllUsers(fs), Lower(username), new_user))]

\* register_user: what it returns and the data directory it leaves
RegisterUserResult(fs, username, password, user_id, salt) ==
    IF ValidationError(username, password) # NoError
    THEN [user |-> None, error |-> ValidationError(username, password), fs |-> fs]
    ELSE LET all_users == LoadAllUsers(fs)
         IN  IF DictHas(all_users, Lower(username))
             THEN [user |-> None, error |-> ErrTaken, fs |-> fs]
             ELSE LET new_user == UserCreate(user_id, username, password, salt)
                  IN  [user |-> new_user, error |-> NoError,
                       fs |-> SaveAllUsers(fs, DictSet(all_users, Lower(username), new_user))]

----------------------------------------------------------------------------
(* file_helpers.py: favorites *)

LoadFavorites(fs, user_id) ==
    IF ~Exists(fs, FavoritesFile(user_id)) THEN <<>>
    ELSE LET raw == fs[FavoritesFile(user_id)]
         IN  [i \in DOMAIN raw |-> RecipeFromDict(raw[i])]

SaveFavorites(fs, user_id, favorites_list) ==
    WriteFile(fs, FavoritesFile(user_id),
              [i \in DOMAIN favorites_list |-> RecipeToDict(favorites_list[i])])

AddFavoriteNoCheck(fs, user_id, new_recipe) ==
    [added |-> TRUE,
     fs |-> SaveFavorites(fs, user_id, Append(LoadFavorites(fs, user_id), new_recipe))]

AddFavoriteInFront(fs, user_id, new_recipe) ==
    LET current == LoadFavorites(fs, user_id)
    IN  IF \E i \in DOMAIN current : current[i].id = new_recipe.id
        THEN [added |-> FALSE, fs |-> fs]
        ELSE [added |-> TRUE,
              fs |-> SaveFavorites(fs, user_id, <<new_recipe>> \o current)]

\* add_favorite: what it returns and the data directory it leaves
AddFavoriteResult(fs, user_id, new_recipe) ==
    LET current == LoadFavorites(fs, user_id)
    IN  IF \E i \in DOMAIN current : current[i].id = new_recipe.id
        THEN [added |-> FALSE, fs |-> fs]
        ELSE [added |-> TRUE,
              fs |-> SaveFavorites(fs, user_id, Append(current, new_recipe))]

RemoveFavoriteFirstOnly(fs, user_id, meal_id) ==
    LET current == LoadFavorites(fs, user_id)
    IN  SaveFavorites(fs, user_id,
            IF current # <<>> /\ Head(current).id = meal_id THEN Tail(current)
            ELSE current)

\* remove_favorite: the data directory it leaves
RemoveFavoriteResult(fs, user_id, meal_id) ==
    LET Keep(r) == r.id # meal_id
    IN  SaveFavorites(fs, user_id, SelectSeq(LoadFavorites(fs, user_id), Keep))

\* add_favorite, the loop over current: is new_recipe's id already saved
AddFavoriteNeverDuplicate(current, new_recipe) == FALSE

AddFavoriteDuplicate(current, new_recipe) ==
    \E i \in DOMAIN current : current[i].id = new_recipe.id

AddFavoriteWriteCompareAndSwap(fs, user_id, current, new_recipe) ==
    IF LoadFavorites(fs, user_id) = current
    THEN SaveFavorites(fs, user_id, Append(current, new_recipe)) ELSE fs

AddFavoriteWriteMerged(fs, user_id, current, new_recipe) ==
    SaveFavorites(fs, user_id, Append(LoadFavorites(fs, user_id), new_recipe))

\* add_favorite, current.append(new_recipe) and save_favorites(user_id, current)
AddFavoriteWrite(fs, user_id, current, new_recipe) ==
    SaveFavorites(fs, user_id, Append(current, new_recipe))

\* remove_favorite, the list comprehension over what load_favorites returned
RemoveFavoriteUpdated(fs, user_id, meal_id) ==
    LET Keep(r) == r.id # meal_id
    IN  SelectSeq(LoadFavorites(fs, user_id), Keep)

----------------------------------------------------------------------------
(* file_helpers.py: meal plans *)

LoadMealPlan(fs, user_id) ==
    IF Exists(fs, MealPlanFile(user_id))
    THEN MealPlanFromDict(fs[MealPlanFile(user_id)])
    ELSE MealPlanNew

SaveMealPlan(fs, user_id, meal_plan) ==
    WriteFile(fs, MealPlanFile(user_id), MealPlanToDict(meal_plan))

ClearMealPlanKeep(fs, user_id) ==
    SaveMealPlan(fs, user_id, LoadMealPlan(fs, user_id))

ClearMealPlan(fs, user_id) == SaveMealPlan(fs, user_id, MealPlanNew)

----------------------------------------------------------------------------
(* Inputs *)

Salts == {"s1"}

Usernames ==
    { <<"a", "b">>, <<"a", "b", "c">>, <<"A", "B", "C">>, <<"b", "o", "b">>,
      Rep("a", MaxUsernameLen), Rep("a", MaxUsernameLen + 1) }

Passwords ==
    { <<"s", "e", "c", "r", "e", "t">>, <<"S", "e", "c", "r", "e", "t">>,
      <<"s", "e", "c", "r", "e">> }

\* What the login form can carry: also padded with blanks
FormUsernames ==
    { <<"a", "b", "c">>, <<" ", "A", "B", "C", " ">>, <<"b", "o", "b">> }

FormPasswords ==
    { <<"s", "e", "c", "r", "e", "t">>, <<" ", "s", "e", "c", "r", "e", "t">>,
      <<"S", "e", "c", "r", "e", "t">> }

RecipeIds == { <<"52772">>, <<"52773">> }

RecipeNames == {"Soup", "Stew"}

\* Recipes of the catalog; two recipes may carry the same identifier
RecipeInputs ==
    { Recipe(i, n, "Seafood", "British", "Boil.", "soup.jpg", <<"1 tsp Salt">>, "") :
          i \in RecipeIds, n \in RecipeNames }

\* Day names a caller can pass: canonical ones and others
DayInputs == { <<"Monday">>, <<"Sunday">>, <<"Funday">>, <<"monday">> }

\* The day field of the assign form: also padded, also blank
FormDays == DayInputs \cup { <<" ", "Sunday", " ">>, <<" ">> }

\* The external catalog: one recipe per identifier
Catalog == {r \in RecipeInputs : r.name = "Soup"}

\* Recipes assigned to days
PlanRecipes == {r \in Catalog : r.id = <<"52772">>}

\* fetch_meal_by_id: the catalog's recipe of that identifier, or None when
\* the catalog has none or cannot be reached
FetchMealById(meal_id) == {None} \cup {r \in Catalog : r.id = meal_id}

----------------------------------------------------------------------------
(* Operations *)

Init ==
    /\ files = <<>>
    /\ session = NoUser
    /\ plan = None
    /\ registered = <<>>
    /\ ret = [op |-> "init"]
    /\ calls = [t \in Threads |-> [pc |-> "idle"]]

\* What a register_user call leaves behind
Registered(username, password, r) ==
    /\ files' = r.fs
    /\ registered' =
           IF r.user # None
           THEN [i \in DOMAIN registered \cup {r.user.id} |->
                    IF i = r.user.id
                    THEN [user |-> r.user, password |-> password]
                    ELSE registered[i]]
           ELSE registered
    /\ ret' = [op |-> "register_user", username |-> username,
               password |-> password, user |-> r.user, error |-> r.error]
    /\ UNCHANGED <<session, plan, calls>>

\* register_user(username, password).  uuid4 and the salt are drawn on the
\* success path only: a call that fails needs no fresh identifier.
RegisterUser(username, password) ==
    LET failing == RegisterUserResult(files, username, password, NoUser, "")
    IN  IF failing.user = None
        THEN Registered(username, password, failing)
        ELSE \E user_id \in UUIDs \ UsedIds(files), salt \in Salts :
                 Registered(username, password,
                     RegisterUserResult(files, username, password, user_id, salt))

\* app.py login(), POST
Login(form_username, form_password) ==
    IF session # NoUser
    THEN /\ ret' = [op |-> "login", redirect |-> "index"]
         /\ UNCHANGED <<files, session, plan, registered, calls>>
    ELSE LET username == Strip(form_username)
             password == Strip(form_password)
             user == GetUserByUsername(files, username)
         IN  IF user = None \/ ~CheckPassword(user, password)
             THEN /\ ret' = [op |-> "login", username |-> username,
                             password |-> password, user |-> None]
                  /\ UNCHANGED <<files, session, plan, registered, calls>>
             ELSE /\ session' = user.id
                  /\ ret' = [op |-> "login", username |-> username,
                             password |-> password, user |-> user]
                  /\ UNCHANGED <<files, plan, registered, calls>>

\* app.py logout()
Logout ==
    /\ session # NoUser
    /\ session' = NoUser
    /\ ret' = [op |-> "logout"]
    /\ UNCHANGED <<files, plan, registered, calls>>

\* add_favorite(user_id, new_recipe)
AddFavorite(user_id, new_recipe) ==
    LET r == AddFavoriteResult(files, user_id, new_recipe)
    IN  /\ files' = r.fs
        /\ ret' = [op |-> "add_favorite", user_id |-> user_id,
                   recipe |-> new_recipe, result |-> r.added]
        /\ UNCHANGED <<session, plan, registered, calls>>

\* remove_favorite(user_id, meal_id)
RemoveFavorite(user_id, meal_id) ==
    /\ files' = RemoveFavoriteResult(files, user_id, meal_id)
    /\ ret' = [op |-> "remove_favorite", user_id |-> user_id, meal_id |-> meal_id]
    /\ UNCHANGED <<session, plan, registered, calls>>

\* app.py favorites_add(), for the logged-in user; recipe is what
\* fetch_meal_by_id answers
FavoritesAdd(form_meal_id, recipe) ==
    /\ session # NoUser
    /\ LET meal_id == Strip(form_meal_id)
           out == [op |-> "favorites_add", user_id |-> session, meal_id |-> meal_id]
       IN  IF meal_id = <<>>
           THEN /\ ret' = [flash |-> "danger: invalid id"] @@ out
                /\ UNCHANGED files
           ELSE /\ recipe \in FetchMealById(meal_id)
                /\ IF recipe = None
                   THEN /\ ret' = [flash |-> "danger: no recipe"] @@ out
                        /\ UNCHANGED files
                   ELSE /\ files' = AddFavoriteResult(files, session, recipe).fs
                        /\ ret' = [flash |-> IF AddFavoriteResult(files, session, recipe).added
                                             THEN "success" ELSE "info"] @@ out
    /\ UNCHANGED <<session, plan, registered, calls>>

\* app.py favorites_remove(meal_id), for the logged-in user
FavoritesRemove(meal_id) ==
    /\ session # NoUser
    /\ files' = RemoveFavoriteResult(files, session, meal_id)
    /\ ret' = [op |-> "favorites_remove", user_id |-> session,
               meal_id |-> meal_id, flash |-> "info"]
    /\ UNCHANGED <<session, plan, registered, calls>>

\* A write of user_id's favorites file by thread t: the calls of the other
\* threads that have loaded that file and not yet written hold a stale list
Overwritten(t, user_id) ==
    [o \in Threads |->
        IF o # t /\ calls[o].pc \in {"add_favorite", "remove_favorite"}
                 /\ calls[o].user_id = user_id
        THEN [calls[o] EXCEPT !.stale = TRUE]
        ELSE calls[o]]

\* add_favorite in thread t, up to and including current = load_favorites(user_id)
AddFavoriteLoad(t, user_id, new_recipe) ==
    /\ calls[t].pc \in {"idle", "returned"}
    /\ calls' = [calls EXCEPT ![t] =
                    [pc |-> "add_favorite", user_id |-> user_id,
                     new_recipe |-> new_recipe,
                     current |-> LoadFavorites(files, user_id),
                     stale |-> FALSE]]
    /\ UNCHANGED <<files, session, plan, registered, ret>>

\* add_favorite in thread t, from the duplicate check to the return
AddFavoriteFinish(t) ==
    /\ calls[t].pc = "add_favorite"
    /\ LET c == calls[t]
       IN  IF AddFavoriteDuplicate(c.current, c.new_recipe)
           THEN /\ calls' = [calls EXCEPT ![t] =
                                [pc |-> "returned", op |-> "add_favorite",
                                 user_id |-> c.user_id, new_recipe |-> c.new_recipe,
                                 current |-> c.current, stale |-> c.stale,
                                 result |-> FALSE]]
                /\ UNCHANGED files
           ELSE /\ files' = AddFavoriteWrite(files, c.user_id, c.current, c.new_recipe)
                /\ calls' = [Overwritten(t, c.user_id) EXCEPT ![t] =
                                [pc |-> "returned", op |-> "add_favorite",
                                 user_id |-> c.user_id, new_recipe |-> c.new_recipe,
                                 current |-> c.current, stale |-> c.stale,
                                 result |-> TRUE]]
    /\ UNCHANGED <<session, plan, registered, ret>>

\* remove_favorite in thread t, up to and including the list updated
RemoveFavoriteLoad(t, user_id, meal_id) ==
    /\ calls[t].pc \in {"idle", "returned"}
    /\ calls' = [calls EXCEPT ![t] =
                    [pc |-> "remove_favorite", user_id |-> user_id,
                     meal_id |-> meal_id,
                     updated |-> RemoveFavoriteUpdated(files, user_id, meal_id),
                     stale |-> FALSE]]
    /\ UNCHANGED <<files, session, plan, registered, ret>>

\* remove_favorite in thread t, save_favorites(user_id, updated)
RemoveFavoriteFinish(t) ==
    /\ calls[t].pc = "remove_favorite"
    /\ LET c == calls[t]
       IN  /\ files' = SaveFavorites(files, c.user_id, c.updated)
           /\ calls' = [Overwritten(t, c.user_id) EXCEPT ![t] =
                           [pc |-> "returned", op |-> "remove_favorite",
                            user_id |-> c.user_id, meal_id |-> c.meal_id,
                            updated |-> c.updated, stale |-> c.stale]]
    /\ UNCHANGED <<session, plan, registered, ret>>

\* load_favorites(user_id)
CallLoadFavorites(user_id) ==
    /\ ret' = [op |-> "load_favorites", user_id |-> user_id,
               result |-> LoadFavorites(files, user_id)]
    /\ UNCHANGED <<files, session, plan, registered, calls>>

\* save_favorites(user_id, favorites_list)
CallSaveFavorites(user_id, favorites_list) ==
    /\ files' = SaveFavorites(files, user_id, favorites_list)
    /\ ret' = [op |-> "save_favorites", user_id |-> user_id,
               favorites_list |-> favorites_list]
    /\ UNCHANGED <<session, plan, registered, calls>>

\* Recipe.from_api(meal), on the record the catalog answered with
CallFromApi ==
    /\ ret.op = "meal"
    /\ ret' = [op |-> "from_api", meal |-> ret.meal, result |-> FromApi(ret.meal)]
    /\ UNCHANGED <<files, session, plan, registered, calls>>

\* plan = load_meal_plan(user_id)
CallLoadMealPlan(user_id) ==
    /\ plan' = LoadMealPlan(files, user_id)
    /\ ret' = [op |-> "load_meal_plan", user_id |-> user_id]
    /\ UNCHANGED <<files, session, registered, calls>>

\* plan.assign_meal(day_name, recipe)
CallAssignMeal(day_name, recipe) ==
    /\ plan # None
    /\ plan' = AssignMeal(plan, day_name, recipe).mp
    /\ ret' = [op |-> "assign_meal", day_name |-> day_name, recipe |-> recipe,
               result |-> AssignMeal(plan, day_name, recipe).ok]
    /\ UNCHANGED <<files, session, registered, calls>>

\* plan.remove_meal(day_name)
CallRemoveMeal(day_name) ==
    /\ plan # None
    /\ plan' = RemoveMeal(plan, day_name).mp
    /\ ret' = [op |-> "remove_meal", day_name |-> day_name,
               result |-> RemoveMeal(plan, day_name).ok]
    /\ UNCHANGED <<files, session, registered, calls>>

\* save_meal_plan(user_id, plan)
CallSaveMealPlan(user_id) ==
    /\ plan # None
    /\ files' = SaveMealPlan(files, user_id, plan)
    /\ ret' = [op |-> "save_meal_plan", user_id |-> user_id]
    /\ UNCHANGED <<session, plan, registered, calls>>

\* clear_meal_plan(user_id)
CallClearMealPlan(user_id) ==
    /\ files' = ClearMealPlan(files, user_id)
    /\ ret' = [op |-> "clear_meal_plan", user_id |-> user_id]
    /\ UNCHANGED <<session, plan, registered, calls>>

\* app.py meal_plan_assign(), for the logged-in user; recipe is what
\* fetch_meal_by_id answers
MealPlanAssign(form_day, form_meal_id, recipe) ==
    /\ session # NoUser
    /\ LET day_name == Strip(form_day)
           meal_id == Strip(form_meal_id)
           loaded == LoadMealPlan(files, session)
           out == [op |-> "meal_plan_assign", user_id |-> session,
                   day_name |-> day_name, meal_id |-> meal_id]
       IN  IF day_name = <<>> \/ meal_id = <<>>
           THEN /\ ret' = [flash |-> "warning"] @@ out
                /\ UNCHANGED files
           ELSE /\ recipe \in FetchMealById(meal_id)
                /\ IF recipe = None
                   THEN /\ ret' = [flash |-> "danger: no recipe"] @@ out
                        /\ UNCHANGED files
                   ELSE IF AssignMeal(loaded, day_name, recipe).ok
                   THEN /\ files' = SaveMealPlan(files, session,
                                         AssignMeal(loaded, day_name, recipe).mp)
                        /\ ret' = [flash |-> "success"] @@ out
                   ELSE /\ ret' = [flash |-> "danger: not a valid day"] @@ out
                        /\ UNCHANGED files
    /\ UNCHANGED <<session, plan, registered, calls>>

\* app.py meal_plan_remove(day_name), for the logged-in user
MealPlanRemove(day_name) ==
    /\ session # NoUser
    /\ files' = SaveMealPlan(files, session,
                     RemoveMeal(LoadMealPlan(files, session), day_name).mp)
    /\ ret' = [op |-> "meal_plan_remove", user_id |-> session,
               day_name |-> day_name, flash |-> "info"]
    /\ UNCHANGED <<session, plan, registered, calls>>

\* app.py meal_plan_clear(), for the logged-in user
MealPlanClear ==
    /\ session # NoUser
    /\ files' = ClearMealPlan(files, session)
    /\ ret' = [op |-> "meal_plan_clear", user_id |-> session, flash |-> "info"]
    /\ UNCHANGED <<session, plan, registered, calls>>

NextUsers ==
    \/ \E username \in Usernames, password \in Passwords :
           RegisterUser(username, password)
    \/ \E form_username \in FormUsernames, form_password \in FormPasswords :
           Login(form_username, form_password)
    \/ Logout

SpecUsers == Init /\ [][NextUsers]_vars

NextFavorites ==
    \/ \E user_id \in UUIDs, new_recipe \in RecipeInputs :
           AddFavorite(user_id, new_recipe)
    \/ \E user_id \in UUIDs, meal_id \in RecipeIds :
           RemoveFavorite(user_id, meal_id)

SpecFavorites == Init /\ [][NextFavorites]_vars

\* One account, so that the handlers have a user to run for
PlanUsername == <<"a", "b", "c">>
PlanPassword == <<"s", "e", "c", "r", "e", "t">>

NextMealPlan ==
    \/ RegisterUser(PlanUsername, PlanPassword)
    \/ Login(PlanUsername, PlanPassword)
    \/ Logout
    \/ \E user_id \in UUIDs : CallLoadMealPlan(user_id)
    \/ \E day_name \in DayInputs, recipe \in PlanRecipes :
           CallAssignMeal(day_name, recipe)
    \/ \E day_name \in DayInputs : CallRemoveMeal(day_name)
    \/ \E user_id \in UUIDs : CallSaveMealPlan(user_id)
    \/ \E user_id \in UUIDs : CallClearMealPlan(user_id)
    \/ \E form_day \in FormDays, recipe \in PlanRecipes \cup {None} :
           MealPlanAssign(form_day, <<" ">> \o <<"52772">>, recipe)
    \/ \E day_name \in DayInputs : MealPlanRemove(day_name)
    \/ MealPlanClear

SpecMealPlan == Init /\ [][NextMealPlan]_vars

\* The meal plan a caller holds, loads and saves: two recipes, two of the
\* seven days and a day that is none of them
SlotDays == { <<"Monday">>, <<"Friday">>, <<"Funday">> }

NextSlots ==
    \/ \E user_id \in UUIDs : CallLoadMealPlan(user_id)
    \/ \E day_name \in SlotDays, recipe \in Catalog :
           CallAssignMeal(day_name, recipe)
    \/ \E day_name \in SlotDays : CallRemoveMeal(day_name)
    \/ \E user_id \in UUIDs : CallSaveMealPlan(user_id)
    \/ \E user_id \in UUIDs : CallClearMealPlan(user_id)

SpecSlots == Init /\ [][NextSlots]_vars

\* Values saved and loaded again: a full recipe, one with a video, and the
\* partial record of an ingredient search (app.py search_by_ingredient)
StoredRecipes ==
    { Recipe(<<"52772">>, "Soup", "Seafood", "British", "Boil.", "soup.jpg",
             <<"1 tsp Salt">>, ""),
      Recipe(<<"52773">>, "Stew", "Beef", "Irish", "Simmer.", "stew.jpg",
             <<"1 tsp Salt", "Beef">>, "youtu.be/stew"),
      Recipe(<<"52774">>, "Pie", "", "", "", "pie.jpg", <<>>, "") }

\* The lists save_favorites is given: none, one or two of these recipes
StoredLists ==
    {<<>>} \cup { <<r>> : r \in StoredRecipes }
           \cup { <<r, q>> : r \in StoredRecipes, q \in StoredRecipes }

StoredDays == { <<"Friday">>, <<"Funday">> }

NextStored ==
    \/ RegisterUser(PlanUsername, PlanPassword)
    \/ \E user_id \in UsedIds(files) : CallLoadFavorites(user_id)
    \/ \E user_id \in UsedIds(files), favorites_list \in StoredLists :
           CallSaveFavorites(user_id, favorites_list)
    \/ \E user_id \in UsedIds(files) : CallLoadMealPlan(user_id)
    \/ \E day_name \in StoredDays, recipe \in StoredRecipes :
           CallAssignMeal(day_name, recipe)
    \/ \E day_name \in StoredDays : CallRemoveMeal(day_name)
    \/ \E user_id \in UsedIds(files) : CallSaveMealPlan(user_id)

SpecStored == Init /\ [][NextStored]_vars

\* The records of the catalog: the fields of a meal, and at each of a few
\* indices one of the shapes an ingredient and its measure come in
MealFields ==
    [idMeal |-> <<"52772">>, strMeal |-> "Soup", strCategory |-> "Seafood",
     strArea |-> "British", strInstructions |-> "Boil.",
     strMealThumb |-> "soup.jpg", strYoutube |-> ""]

PairShapes(counter, name) ==
    { <<>>,
      IngredientKey(counter) :> JsonStr(<<>>),
      IngredientKey(counter) :> JsonNull
          @@ MeasureKey(counter) :> JsonStr(<<"1", " ", "tsp">>),
      IngredientKey(counter) :> JsonStr(<<" ">>)
          @@ MeasureKey(counter) :> JsonStr(<<"1", " ", "tsp">>),
      IngredientKey(counter) :> JsonStr(<<name>>)
          @@ MeasureKey(counter) :> JsonStr(<<"1", " ", "tsp">>),
      IngredientKey(counter) :> JsonStr(<<name>>)
          @@ MeasureKey(counter) :> JsonStr(<<" ">>),
      IngredientKey(counter) :> JsonStr(<<name>>)
          @@ MeasureKey(counter) :> JsonNull,
      IngredientKey(counter) :> JsonStr(<<" ", name, " ">>)
          @@ MeasureKey(counter) :> JsonStr(<<"2", " ", "cups", " ">>) }

MealInputs ==
    { MealFields @@ a @@ b @@ c @@ d :
        a \in PairShapes(3, "Rice"), b \in PairShapes(5, "Salt"),
        c \in PairShapes(20, "Egg"), d \in PairShapes(21, "Milk") }

InitFromApi ==
    /\ files = <<>>
    /\ session = NoUser
    /\ plan = None
    /\ registered = <<>>
    /\ \E meal \in MealInputs : ret = [op |-> "meal", meal |-> meal]
    /\ calls = [t \in Threads |-> [pc |-> "idle"]]

NextFromApi == CallFromApi

SpecFromApi == InitFromApi /\ [][NextFromApi]_vars

\* Two request threads running add_favorite and remove_favorite for one
\* user, with no lock between a call's load and its write
ConcurrentUser == CHOOSE user_id \in UUIDs : TRUE

NextConcurrent ==
    \/ \E t \in Threads, new_recipe \in Catalog :
           AddFavoriteLoad(t, ConcurrentUser, new_recipe)
    \/ \E t \in Threads : AddFavoriteFinish(t)
    \/ \E t \in Threads, meal_id \in RecipeIds :
           RemoveFavoriteLoad(t, ConcurrentUser, meal_id)
    \/ \E t \in Threads : RemoveFavoriteFinish(t)

SpecConcurrent == Init /\ [][NextConcurrent]_vars

\* The two stores side by side, for every user identifier, with one account
\* in the directory
StoreDays == { <<"Monday">> }

NextStores ==
    \/ RegisterUser(PlanUsername, PlanPassword)
    \/ \E user_id \in UUIDs, new_recipe \in PlanRecipes :
           AddFavorite(user_id, new_recipe)
    \/ \E user_id \in UUIDs, new_recipe \in PlanRecipes :
           RemoveFavorite(user_id, new_recipe.id)
    \/ \E user_id \in UUIDs : CallLoadMealPlan(user_id)
    \/ \E day_name \in StoreDays, recipe \in PlanRecipes :
           CallAssignMeal(day_name, recipe)
    \/ \E user_id \in UUIDs : CallSaveMealPlan(user_id)
    \/ \E user_id \in UUIDs : CallClearMealPlan(user_id)

SpecStores == Init /\ [][NextStores]_vars

\* A meal plan file as load_meal_plan may find it: a record whose plan
\* mapping has any of these keys, each with null or a serialized recipe, or
\* a record with no plan mapping
PersistedKeys == { <<"Monday">>, <<"Friday">>, <<"Funday">> }

PersistedPlans ==
    { [id |-> "weekly_plan"] }
    \cup { [id |-> "weekly_plan", plan |-> stored] :
             stored \in UNION { [keys -> {None} \cup {RecipeToDict(r) : r \in PlanRecipes}] :
                                  keys \in SUBSET PersistedKeys } }

InitPersisted ==
    /\ \E user_id \in UUIDs, data \in PersistedPlans :
          files = WriteFile(<<>>, MealPlanFile(user_id), data)
    /\ session = NoUser
    /\ plan = None
    /\ registered = <<>>
    /\ ret = [op |-> "init"]
    /\ calls = [t \in Threads |-> [pc |-> "idle"]]

NextPersisted ==
    \/ \E user_id \in UUIDs : CallLoadMealPlan(user_id)
    \/ \E day_name \in PersistedKeys, recipe \in PlanRecipes :
           CallAssignMeal(day_name, recipe)
    \/ \E day_name \in PersistedKeys : CallRemoveMeal(day_name)
    \/ \E user_id \in UUIDs : CallSaveMealPlan(user_id)

SpecPersisted == InitPersisted /\ [][NextPersisted]_vars

\* The application: accounts, and the requests of the logged-in user
AppUsernames == { <<"a", "b", "c">>, <<"A", "B", "C">>, <<"b", "o", "b">> }
AppMealIds == { <<"52772">>, <<" ">>, <<"52772", " ">> }
AppDays == { <<"Monday">>, <<"Funday">> }

Next ==
    \/ \E username \in AppUsernames : RegisterUser(username, PlanPassword)
    \/ \E form_username \in AppUsernames : Login(form_username, PlanPassword)
    \/ Logout
    \/ \E form_meal_id \in AppMealIds, recipe \in Catalog \cup {None} :
           FavoritesAdd(form_meal_id, recipe)
    \/ \E meal_id \in RecipeIds : FavoritesRemove(meal_id)
    \/ \E form_day \in AppDays \cup {<<" ">>}, form_meal_id \in AppMealIds,
              recipe \in Catalog \cup {None} :
           MealPlanAssign(form_day, form_meal_id, recipe)
    \/ \E day_name \in AppDays : MealPlanRemove(day_name)
    \/ MealPlanClear

Spec == Init /\ [][Next]_vars

----------------------------------------------------------------------------
(* Properties: the user directory *)

CasingWidth == 3       \* casings vary the first CasingWidth characters

\* The persisted user directory: the list users.json holds
Directory(fs) == IF Exists(fs, USERS_FILE) THEN fs[USERS_FILE] ELSE <<>>

UpperChar(c) ==
    CASE c = "a" -> "A"
      [] c = "b" -> "B"
      [] c = "c" -> "C"
      [] c = "s" -> "S"
      [] OTHER -> c

Upper(s) == [i \in DOMAIN s |-> UpperChar(s[i])]

\* Letter-casings of s: every casing of its first CasingWidth characters over
\* a lower-case rest, and s in upper case
Casings(s) ==
    { [i \in DOMAIN s |-> IF i \in M THEN UpperChar(s[i]) ELSE LowerChar(s[i])] :
          M \in SUBSET {i \in DOMAIN s : i <= CasingWidth} }
    \cup {Upper(s), s}

NameTaken(fs, username) ==
    \E i \in DOMAIN Directory(fs) :
        Lower(Directory(fs)[i].username) = Lower(username)

\* C1: the persisted user directory never holds two distinct users whose
\* usernames are equal after case-folding (str.lower, as the code folds).
C1_UniqueFoldedUsernames ==
    \A i, j \in DOMAIN Directory(files) :
        i # j => Lower(Directory(files)[i].username) # Lower(Directory(files)[j].username)

\* C1 witness: two users are registered, and a registration of another casing
\* of an existing username has just been refused.
C1_Witness ==
    /\ Len(Directory(files)) = 2
    /\ ret.op = "register_user"
    /\ ret.error = ErrTaken
    /\ \E i \in DOMAIN Directory(files) :
           /\ Directory(files)[i].username # ret.username
           /\ Lower(Directory(files)[i].username) = Lower(ret.username)

\* C2: a register_user call with username length in [3,30], password length
\* >= 6 and a folded username not in the directory returns the new user with
\* no error, the directory grows by exactly one, and get_user_by_username
\* with any casing of the username returns the new user.
C2_ValidRegistration ==
    [][ ( /\ ret'.op = "register_user"
          /\ Len(ret'.username) >= MinUsernameLen
          /\ Len(ret'.username) <= MaxUsernameLen
          /\ Len(ret'.password) >= MinPasswordLen
          /\ ~NameTaken(files, ret'.username) )
        => ( /\ ret'.user # None
             /\ ret'.error = NoError
             /\ ret'.user.username = ret'.username
             /\ Len(Directory(files')) = Len(Directory(files)) + 1
             /\ \A v \in Casings(ret'.username) :
                    GetUserByUsername(files', v) = ret'.user ) ]_vars

\* C2 witness: a second user has just been registered under a username of
\* maximal length, and is found under another casing of it.
C2_Witness ==
    /\ ret.op = "register_user"
    /\ ret.user # None
    /\ Len(ret.username) = MaxUsernameLen
    /\ Len(Directory(files)) = 2
    /\ Upper(ret.username) # ret.username
    /\ GetUserByUsername(files, Upper(ret.username)) = ret.user

\* C3: register_user returns (None, error) exactly when the username length
\* is outside [3,30], or the password is shorter than 6, or the folded
\* username is already in the directory; a failing call leaves the persisted
\* directory unchanged.
C3_RegistrationFailure ==
    [][ ret'.op = "register_user"
        => ( /\ (ret'.user = None /\ ret'.error # NoError)
                  <=> ( \/ Len(ret'.username) < MinUsernameLen
                        \/ Len(ret'.username) > MaxUsernameLen
                        \/ Len(ret'.password) < MinPasswordLen
                        \/ NameTaken(files, ret'.username) )
             /\ (ret'.user = None) <=> (ret'.error # NoError)
             /\ ret'.user = None => files' = files ) ]_vars

\* C3 witness: a registration under a too long username has just failed with
\* a user already in the directory.
C3_Witness ==
    /\ ret.op = "register_user"
    /\ ret.user = None
    /\ ret.error = ErrLong
    /\ Len(Directory(files)) >= 1

\* C5: the lookup and password check of login yield the registered user if
\* and only if a user with that folded username exists and the supplied
\* password is the one given at registration; otherwise they yield none; the
\* directory is not modified.
C5_Authentication ==
    [][ (ret'.op = "login" /\ "user" \in DOMAIN ret')
        => LET dir == Directory(files)
               matches == { i \in DOMAIN dir :
                               /\ Lower(dir[i].username) = Lower(ret'.username)
                               /\ registered[dir[i].id].password = ret'.password }
           IN  /\ (ret'.user # None) <=> (matches # {})
               /\ ret'.user # None =>
                      \E i \in matches : ret'.user = registered[dir[i].id].user
               /\ files' = files ]_vars

\* C5 witness: a login under another casing of the username has succeeded.
C5_Witness ==
    /\ ret.op = "login"
    /\ "user" \in DOMAIN ret
    /\ ret.user # None
    /\ ret.user.username # ret.username
    /\ session = ret.user.id

----------------------------------------------------------------------------
(* Properties: favorites *)

\* The persisted favorites list of a user: the list the file holds
PersistedFavorites(fs, user_id) ==
    IF Exists(fs, FavoritesFile(user_id)) THEN fs[FavoritesFile(user_id)] ELSE <<>>

HasId(list, id) == \E i \in DOMAIN list : list[i].id = id

\* list without the entries of identifier id, the others in their order
RECURSIVE Without(_, _)
Without(list, id) ==
    IF list = <<>> THEN <<>>
    ELSE IF Head(list).id = id THEN Without(Tail(list), id)
    ELSE <<Head(list)>> \o Without(Tail(list), id)

\* C6: a user's persisted favorites list never holds two recipes with the
\* same identifier.
C6_UniqueFavoriteIds ==
    \A user_id \in UUIDs :
        LET list == PersistedFavorites(files, user_id)
        IN  \A i, j \in DOMAIN list : i # j => list[i].id # list[j].id

\* C6 witness: an add of an identifier already in a list of two has just
\* been refused.
C6_Witness ==
    /\ ret.op = "add_favorite"
    /\ ret.result = FALSE
    /\ Len(PersistedFavorites(files, ret.user_id)) = 2

\* C7: add_favorite returns true exactly when no recipe of that identifier
\* is in the user's list, and then the new list is the old one with the
\* recipe appended; otherwise it returns false and nothing persisted
\* changes (the length in particular).
C7_AddFavorite ==
    [][ ret'.op = "add_favorite"
        => LET old == LoadFavorites(files, ret'.user_id)
               new == LoadFavorites(files', ret'.user_id)
           IN  /\ ret'.result <=> ~HasId(old, ret'.recipe.id)
               /\ ret'.result => new = Append(old, ret'.recipe)
               /\ ~ret'.result => (files' = files /\ Len(new) = Len(old)) ]_vars

\* C7 witness: a second add of an identifier, with other recipe data, has
\* returned false and the list still holds the first recipe.
C7_Witness ==
    /\ ret.op = "add_favorite"
    /\ ret.result = FALSE
    /\ \E i \in DOMAIN LoadFavorites(files, ret.user_id) :
           /\ LoadFavorites(files, ret.user_id)[i].id = ret.recipe.id
           /\ LoadFavorites(files, ret.user_id)[i] # ret.recipe

----------------------------------------------------------------------------
(* Properties: accounts over the whole application *)

\* C4: once register_user has returned a user, get_user_by_id with that
\* identifier returns a user with the same identifier, username and
\* password hash in every later state.
C4_AccountsAppendOnly ==
    \A user_id \in DOMAIN registered :
        LET user == GetUserById(files, user_id)
        IN  /\ user # None
            /\ user.id = user_id
            /\ user.username = registered[user_id].user.username
            /\ user.password_hash = registered[user_id].user.password_hash

\* C4 witness: with two accounts, the user registered first is logged in,
\* holds a favorite and a meal plan, and has just cleared a day.
C4_Witness ==
    /\ Len(Directory(files)) = 2
    /\ session = Directory(files)[1].id
    /\ ret.op = "meal_plan_remove"
    /\ Len(PersistedFavorites(files, session)) = 1
    /\ GetUserById(files, session) = registered[session].user

----------------------------------------------------------------------------
(* Properties: meal plans *)

\* C9: the in-memory plan and every persisted plan have exactly the seven
\* canonical day names as their slots.
C9_SevenSlots ==
    /\ plan # None => DOMAIN plan.plan = DaySet
    /\ \A user_id \in UUIDs :
           Exists(files, MealPlanFile(user_id))
               => DOMAIN files[MealPlanFile(user_id)].plan = DaySet

\* C9 witness: an assignment to a day that is no canonical name has just been
\* made on a plan holding a recipe, with a plan holding a recipe persisted.
C9_Witness ==
    /\ ret.op = "assign_meal"
    /\ ret.day_name \notin DaySet
    /\ \E day \in DaySet : plan.plan[day] # None
    /\ \E user_id \in UUIDs :
           /\ Exists(files, MealPlanFile(user_id))
           /\ \E day \in DaySet : files[MealPlanFile(user_id)].plan[day] # None

\* C10: for a day name that is none of the seven, assign_meal and remove_meal
\* return false and leave every slot unchanged; through meal_plan_assign and
\* meal_plan_remove the plan persisted for the user is the same after the
\* request as before it.
C10_UnknownDayRejected ==
    [][ /\ (ret'.op \in {"assign_meal", "remove_meal"} /\ ret'.day_name \notin DaySet)
            => (ret'.result = FALSE /\ plan' = plan)
        /\ (ret'.op \in {"meal_plan_assign", "meal_plan_remove"}
               /\ ret'.day_name \notin DaySet)
            => LoadMealPlan(files', ret'.user_id) = LoadMealPlan(files, ret'.user_id)
      ]_vars

\* C10 witness: meal_plan_remove has just been asked for a day that is none
\* of the seven, for a user whose persisted plan holds a recipe.
C10_Witness ==
    /\ ret.op = "meal_plan_remove"
    /\ ret.day_name \notin DaySet
    /\ \E day \in DaySet : LoadMealPlan(files, ret.user_id).plan[day] # None

----------------------------------------------------------------------------
(* Properties: the slots of a meal plan *)

AllEmpty(mp) == DOMAIN mp.plan = DaySet /\ \A day \in DaySet : mp.plan[day] = None

OnlyHolds(mp, day_name, recipe) ==
    /\ DOMAIN mp.plan = DaySet
    /\ \A day \in DaySet : mp.plan[day] = IF day = day_name THEN recipe ELSE None

\* C11: for a canonical day d, assign_meal(d, R) returns true and sets slot d
\* to R whatever it held, remove_meal(d) returns true and empties slot d, and
\* the other six slots keep their content; a saved plan is the plan loaded
\* next, so R assigned to Friday on an empty plan, saved and loaded, is a
\* plan where only Friday holds R.
C11_CanonicalDayAssigned ==
    [][ /\ (ret'.op = "assign_meal" /\ ret'.day_name \in DaySet)
            => /\ ret'.result = TRUE
               /\ plan'.plan[ret'.day_name] = ret'.recipe
               /\ \A day \in DaySet \ {ret'.day_name} : plan'.plan[day] = plan.plan[day]
        /\ (ret'.op = "remove_meal" /\ ret'.day_name \in DaySet)
            => /\ ret'.result = TRUE
               /\ plan'.plan[ret'.day_name] = None
               /\ \A day \in DaySet \ {ret'.day_name} : plan'.plan[day] = plan.plan[day]
        /\ ret'.op = "save_meal_plan"
            => LoadMealPlan(files', ret'.user_id) = plan
        /\ (ret'.op = "save_meal_plan"
               /\ \E recipe \in Catalog : OnlyHolds(plan, <<"Friday">>, recipe))
            => \E recipe \in Catalog :
                  OnlyHolds(LoadMealPlan(files', ret'.user_id), <<"Friday">>, recipe)
      ]_vars

\* C11 witness: a plan where only Friday holds a recipe has just been loaded
\* from the file it was saved to.
C11_Witness ==
    /\ ret.op = "load_meal_plan"
    /\ Exists(files, MealPlanFile(ret.user_id))
    /\ plan = LoadMealPlan(files, ret.user_id)
    /\ \E recipe \in Catalog : OnlyHolds(plan, <<"Friday">>, recipe)

\* C12: load_meal_plan returns a plan with seven empty slots when the user has
\* no meal plan file, and after clear_meal_plan the plan load_meal_plan
\* returns has seven empty slots, whatever was persisted before.
C12_EmptyByDefaultAndAfterClear ==
    [][ /\ (ret'.op = "load_meal_plan" /\ ~Exists(files, MealPlanFile(ret'.user_id)))
            => AllEmpty(plan')
        /\ ret'.op = "clear_meal_plan"
            => AllEmpty(LoadMealPlan(files', ret'.user_id))
      ]_vars

\* C12 witness: a meal plan has just been cleared while the plan held in
\* memory, loaded from that file before, still has recipes on two days.
C12_Witness ==
    /\ ret.op = "clear_meal_plan"
    /\ plan # None
    /\ plan.plan[<<"Monday">>] # None
    /\ plan.plan[<<"Friday">>] # None
    /\ AllEmpty(LoadMealPlan(files, ret.user_id))

----------------------------------------------------------------------------
(* Properties: serialization *)

RecipeRoundTrip(r) == RecipeFromDict(RecipeToDict(r)) = r

\* C13: from_dict(to_dict(x)) equals x in all fields for every User of the
\* directory, every Recipe saved or assigned and every MealPlan held, and
\* load_meal_plan after save_meal_plan, load_favorites after save_favorites,
\* return the value that was saved.
C13_RoundTrip ==
    [][ /\ \A user_id \in UsedIds(files') :
              LET u == GetUserById(files', user_id)
              IN  UserFromDict(UserToDict(u)) = u
        /\ plan' # None
            => /\ MealPlanFromDict(MealPlanToDict(plan')) = plan'
               /\ \A day \in DOMAIN plan'.plan :
                     plan'.plan[day] # None => RecipeRoundTrip(plan'.plan[day])
        /\ ret'.op = "save_meal_plan"
            => LoadMealPlan(files', ret'.user_id) = plan
        /\ ret'.op = "save_favorites"
            => /\ LoadFavorites(files', ret'.user_id) = ret'.favorites_list
               /\ \A i \in DOMAIN ret'.favorites_list :
                     RecipeRoundTrip(ret'.favorites_list[i])
      ]_vars

\* C13 witness: two favorites, one of them with a video, have been saved and
\* loaded again, and the plan held, with a recipe on Friday, is the one its
\* file loads as.
C13_Witness ==
    /\ ret.op = "load_favorites"
    /\ Len(ret.result) = 2
    /\ \E i \in DOMAIN ret.result : ret.result[i].youtube_url # ""
    /\ plan # None
    /\ plan.plan[<<"Friday">>] # None
    /\ plan.plan[<<"Friday">>].youtube_url # ""
    /\ Exists(files, MealPlanFile(ret.user_id))
    /\ LoadMealPlan(files, ret.user_id) = plan

----------------------------------------------------------------------------
(* Properties: the ingredient list of Recipe.from_api *)

\* The name and the measure a record gives at an index: "" when the key is
\* missing or its value is null
NameAt(meal, i) ==
    IF IngredientKey(i) \in DOMAIN meal /\ ~meal[IngredientKey(i)].null
    THEN meal[IngredientKey(i)].str ELSE <<>>

MeasureAt(meal, i) ==
    IF MeasureKey(i) \in DOMAIN meal /\ ~meal[MeasureKey(i)].null
    THEN meal[MeasureKey(i)].str ELSE <<>>

Blank(s) == \A k \in DOMAIN s : s[k] = " "

Named(meal) == {i \in 1..IngredientSlots : ~Blank(NameAt(meal, i))}

NthNamed(meal, k) ==
    CHOOSE i \in Named(meal) : Cardinality({j \in Named(meal) : j < i}) = k - 1

EntryAt(meal, i) ==
    IF Blank(MeasureAt(meal, i)) THEN Strip(NameAt(meal, i))
    ELSE Strip(MeasureAt(meal, i)) \o <<" ">> \o Strip(NameAt(meal, i))

\* C14: the ingredient list Recipe.from_api builds has one entry for each
\* index of 1..20 whose name is neither missing, null nor blank, in increasing
\* index order, the entry being "measure name", or the name alone when the
\* measure is blank; nothing else, so indices above 20 are ignored.
C14_IngredientScan ==
    ret.op = "from_api"
    => LET ingredients == ret.result.ingredients
       IN  /\ Len(ingredients) = Cardinality(Named(ret.meal))
           /\ \A k \in 1..Len(ingredients) :
                 ingredients[k] = EntryAt(ret.meal, NthNamed(ret.meal, k))

\* C14 witness: from_api has read a record with a blank name at index 3,
\* padded values at index 5, a name with a null measure at index 20 and a
\* named ingredient at index 21, and built two entries.
C14_Witness ==
    /\ ret.op = "from_api"
    /\ IngredientKey(3) \in DOMAIN ret.meal
    /\ NameAt(ret.meal, 3) = <<" ">>
    /\ NameAt(ret.meal, 5) = <<" ", "Salt", " ">>
    /\ NameAt(ret.meal, 20) = <<"Egg">>
    /\ MeasureKey(20) \in DOMAIN ret.meal
    /\ ret.meal[MeasureKey(20)].null
    /\ NameAt(ret.meal, 21) = <<"Milk">>
    /\ ret.result.ingredients = << <<"2", " ", "cups", " ", "Salt">>, <<"Egg">> >>

----------------------------------------------------------------------------
(* Properties: concurrent calls on one favorites file *)

ReturnedAdd(t) ==
    /\ calls[t].pc = "returned"
    /\ calls[t].op = "add_favorite"
    /\ calls[t].result = TRUE

\* C15: add_favorite holds no lock between its load and its write: a call
\* that returns true leaves in the file the list it loaded with its recipe
\* appended, whatever was written since the load, and a call that returns
\* false leaves the file alone; so two concurrent calls with different
\* identifiers can both return true and one of the recipes is lost.
C15_LastWriteWins ==
    [][ \A t \in Threads :
          (calls[t].pc = "add_favorite" /\ calls'[t].pc = "returned")
          => IF calls'[t].result
             THEN /\ LoadFavorites(files', calls[t].user_id)
                        = Append(calls[t].current, calls[t].new_recipe)
                  /\ \A o \in Threads \ {t} :
                        ( /\ ReturnedAdd(o)
                          /\ calls[o].user_id = calls[t].user_id
                          /\ calls[o].new_recipe.id # calls[t].new_recipe.id
                          /\ ~HasId(calls[t].current, calls[o].new_recipe.id) )
                        => ~HasId(LoadFavorites(files', calls[t].user_id),
                                  calls[o].new_recipe.id)
             ELSE files' = files
      ]_vars

\* C15 witness: two calls for one user with different identifiers loaded the
\* same list, both returned true, the second wrote over the first's write,
\* and the file holds the second's recipe and not the first's.
C15_Witness ==
    \E t \in Threads, o \in Threads :
        /\ t # o
        /\ ReturnedAdd(t)
        /\ ReturnedAdd(o)
        /\ calls[t].user_id = calls[o].user_id
        /\ calls[t].new_recipe.id # calls[o].new_recipe.id
        /\ calls[t].current = calls[o].current
        /\ calls[t].stale
        /\ ~calls[o].stale
        /\ HasId(PersistedFavorites(files, calls[t].user_id), calls[t].new_recipe.id)
        /\ ~HasId(PersistedFavorites(files, calls[t].user_id), calls[o].new_recipe.id)

\* C18: whatever the interleaving of the load and write steps of concurrent
\* add_favorite and remove_favorite calls, a persisted favorites list has as
\* many distinct identifiers as entries.
C18_NoDuplicateUnderRaces ==
    \A user_id \in UUIDs :
        LET list == PersistedFavorites(files, user_id)
        IN  Cardinality({ list[i].id : i \in DOMAIN list }) = Len(list)

\* C18 witness: two concurrent calls added the same identifier, both passed
\* the duplicate check and returned true, and the file holds it once.
C18_Witness ==
    \E t \in Threads, o \in Threads :
        /\ t # o
        /\ ReturnedAdd(t)
        /\ ReturnedAdd(o)
        /\ calls[t].user_id = calls[o].user_id
        /\ calls[t].new_recipe.id = calls[o].new_recipe.id
        /\ calls[t].stale
        /\ LET list == PersistedFavorites(files, calls[t].user_id)
           IN  /\ Len(list) = 2
               /\ Cardinality({i \in DOMAIN list : list[i].id = calls[t].new_recipe.id}) = 1

----------------------------------------------------------------------------
(* Properties: one record per user and store *)

SameFavorites(user_id) == LoadFavorites(files', user_id) = LoadFavorites(files, user_id)

SameMealPlan(user_id) == LoadMealPlan(files', user_id) = LoadMealPlan(files, user_id)

\* C16: add_favorite and remove_favorite for user U leave the favorites of
\* every other user, the meal plan of every user and the user directory as
\* they were; save_meal_plan and clear_meal_plan for U leave the meal plan of
\* every other user, the favorites of every user and the directory as they
\* were.
C16_PerUserIndependence ==
    [][ /\ ret'.op \in {"add_favorite", "remove_favorite"}
            => /\ \A user_id \in UUIDs \ {ret'.user_id} : SameFavorites(user_id)
               /\ \A user_id \in UUIDs : SameMealPlan(user_id)
               /\ LoadAllUsers(files') = LoadAllUsers(files)
        /\ ret'.op \in {"save_meal_plan", "clear_meal_plan"}
            => /\ \A user_id \in UUIDs \ {ret'.user_id} : SameMealPlan(user_id)
               /\ \A user_id \in UUIDs : SameFavorites(user_id)
               /\ LoadAllUsers(files') = LoadAllUsers(files)
      ]_vars

\* C16 witness: a recipe has just been added to the favorites of a user who
\* has a recipe in the meal plan, while another user has a favorite and a
\* recipe in the meal plan, and the directory holds an account.
C16_Witness ==
    /\ ret.op = "add_favorite"
    /\ ret.result = TRUE
    /\ UsedIds(files) # {}
    /\ LoadMealPlan(files, ret.user_id).plan[<<"Monday">>] # None
    /\ \E user_id \in UUIDs \ {ret.user_id} :
          /\ LoadFavorites(files, user_id) # <<>>
          /\ LoadMealPlan(files, user_id).plan[<<"Monday">>] # None

----------------------------------------------------------------------------
(* Properties: the slots of a plan read from a file *)

\* C17: whatever record a meal plan file holds, also one whose plan mapping
\* has a key that is no canonical day name or lacks some of the days,
\* the plan load_meal_plan returns for it, which is MealPlan.from_dict of the
\* record, has exactly the seven canonical day names as slots.
C17_LoadedSlotsCanonical ==
    ret.op = "load_meal_plan"
    => /\ plan = MealPlanFromDict(Get(files, MealPlanFile(ret.user_id), <<>>))
       /\ DOMAIN plan.plan = DaySet

=============================================================================
